---- MODULE Spec2Model ----
(***************************************************************************)
(* Model of the retrosai game-list page (src/unnamed/part_000, lines       *)
(* 1-291: the batched "modern UI" script; src/script.js: the cover-map     *)
(* variant, its startup, render and url resolution; src/unnamed/part_001:  *)
(* the same slugifyIGDB as script.js).                                     *)
(*                                                                         *)
(* Spec is the page of part_000 under every order of events, SpecFair the  *)
(* same with timeouts that fire, SpecBatch its load-more with the batch    *)
(* size of the source, SpecStartup the startup of both scripts, SpecJson   *)
(* the page on catalogs whose values need not be lists, SpecSlug the url   *)
(* of a row as a function of title, platform and override map.             *)
(*                                                                         *)
(* Strings are sequences of character tokens.  The token "sz" stands for   *)
(* U+00DF (LATIN SMALL LETTER SHARP S), whose String.prototype.toUpperCase *)
(* image is the two characters "SS"; "e_acute" / "E_acute" stand for       *)
(* U+00E9 / U+00C9, "acute" for U+0301 (COMBINING ACUTE ACCENT), "tm" for  *)
(* U+2122.  " " is the only white space token.                             *)
(* Platform names are TLA+ strings; "" is the "all platforms" option.      *)
(***************************************************************************)
EXTENDS Integers, Sequences, FiniteSets, TLC

VARIABLES
    pc,           \* position of init(): "await" (Promise.all pending) or "ready"
    pending,      \* urls whose loadJSON promise has not settled yet
    results,      \* url -> value the settled loadJSON promise resolved to
    GAMES,        \* part_000:5   { Platform: [Title, ...] }
    LINKMAP,      \* part_000:6   { Platform: { Title: url } }
    state,        \* part_000:8   search / platform / letter / density / chunk
    searchValue,  \* els.search.value    (text currently in the search box)
    platformValue,\* els.platform.value  (selected option of the platform select)
    letterValue,  \* els.letter.value    (selected option of the letter select)
    t,            \* debounce closure variable: id of the last timeout set (0: undefined)
    timeouts,     \* ids of the timeouts that are scheduled and have not fired
    resultsMeta,  \* els.resultsMeta.textContent, as its components
    gameList,     \* children of els.gameList: one record per <details> panel
    passes,       \* history: number of render() passes so far, modulo PassWrap
    burst,        \* history: search-input events since the debounced handler last ran
    last,         \* history: the handler that ran last (op), the input events its
                  \* debounce burst had (n), the load-more clicks of the panels it
                  \* removed from the document (dropped)
    script,       \* src/script.js: its globals, the position of its init() and its
                  \* document (a record; see scriptStart)
    probe         \* a call of a pure function: its arguments and, once it has
                  \* returned, its results (<<>> while no call is made)

vars == <<pc, pending, results, GAMES, LINKMAP, state, searchValue, platformValue,
          letterValue, t, timeouts, resultsMeta, gameList, passes, burst, last,
          script, probe>>

----------------------------------------------------------------------------
(* Bounds of the model *)

\* state.chunk is 400 in the source (see chunk below); Spec runs the page with
\* this scaled batch size so that short catalogs need several batches.
SmallChunk == 2
\* the render-pass counter is kept modulo PassWrap
PassWrap == 3
\* search-input events counted within one debounce burst (the count saturates)
MaxBurst == 2
\* timeouts that may be scheduled at once (only a faulty debounce exceeds one)
MaxTimers == 2
\* list lengths 0..MaxTotal are tried with every batch size 1..MaxStep in SpecBatch
MaxTotal == 9
MaxStep == 3

\* part_000:14  chunk: 400
chunk == 400

----------------------------------------------------------------------------
(* Strings *)

Min(a, b) == IF a < b THEN a ELSE b

Capitals ==
    <<"A", "B", "C", "D", "E", "F", "G", "H", "I", "J", "K", "L", "M",
      "N", "O", "P", "Q", "R", "S", "T", "U", "V", "W", "X", "Y", "Z">>
Smalls ==
    <<"a", "b", "c", "d", "e", "f", "g", "h", "i", "j", "k", "l", "m",
      "n", "o", "p", "q", "r", "s", "t", "u", "v", "w", "x", "y", "z">>
Digits == {"0", "1", "2", "3", "4", "5", "6", "7", "8", "9"}

AsciiUpper == {Capitals[i] : i \in 1..26}
AsciiLower == {Smalls[i] : i \in 1..26}

\* the place of an ASCII letter in its alphabet
letterIndex(alphabet, c) == CHOOSE i \in 1..26 : alphabet[i] = c

\* String.prototype.toUpperCase, per character (full case mapping: one
\* character may map to several)
UpperChar(c) ==
    CASE c \in AsciiLower -> <<Capitals[letterIndex(Smalls, c)]>>
      [] c = "sz" -> <<"S", "S">>
      [] c = "e_acute" -> <<"E_acute">>
      [] OTHER -> <<c>>

\* String.prototype.toLowerCase, per character
LowerChar(c) ==
    CASE c \in AsciiUpper -> <<Smalls[letterIndex(Capitals, c)]>>
      [] c = "E_acute" -> <<"e_acute">>
      [] OTHER -> <<c>>

RECURSIVE toUpperCase(_)
toUpperCase(s) ==
    IF s = <<>> THEN <<>> ELSE UpperChar(Head(s)) \o toUpperCase(Tail(s))

RECURSIVE toLowerCase(_)
toLowerCase(s) ==
    IF s = <<>> THEN <<>> ELSE LowerChar(Head(s)) \o toLowerCase(Tail(s))

IsWhiteSpace(c) == c = " "

RECURSIVE trimStart(_)
trimStart(s) ==
    IF s # <<>> /\ IsWhiteSpace(Head(s)) THEN trimStart(Tail(s)) ELSE s

RECURSIVE trimEnd(_)
trimEnd(s) ==
    IF s # <<>> /\ IsWhiteSpace(s[Len(s)])
    THEN trimEnd(SubSeq(s, 1, Len(s) - 1))
    ELSE s

\* String.prototype.trim
trim(s) == trimEnd(trimStart(s))

\* String.prototype.charAt: the empty string when the index is out of range
charAt(s, i) == IF i < Len(s) THEN <<s[i + 1]>> ELSE <<>>

\* String.prototype.includes
includes(hay, needle) ==
    \E k \in 0..(Len(hay) - Len(needle)) :
        SubSeq(hay, k + 1, k + Len(needle)) = needle

\* /[A-Z]/.test(s): some character of s is an ASCII capital
testAZ(s) == \E i \in 1..Len(s) : s[i] \in AsciiUpper

----------------------------------------------------------------------------
(* Data the page may be served *)

EmptyObj == <<>>    \* the object {} : a function with empty domain

T_Ab  == <<"A", "b">>
T_3a  == <<"3", "a">>
T_ab  == <<"a", "b">>
T_sBa == <<" ", "B", "a">>
T_Ba  == <<"B", "a">>
T_sza == <<"sz", "a">>
T_nil == <<>>

CatalogFull ==
    [p \in {"GB", "NES", "SNES"} |->
        CASE p = "NES" -> <<T_Ab, T_3a, T_ab, T_sBa, T_Ab, T_Ba, T_sza>>
          [] p = "GB" -> <<T_Ba, T_3a, T_nil>>
          [] OTHER -> <<>>]

CatalogOne == [p \in {"NES"} |-> <<T_ab, T_Ab, T_3a>>]

\* "https://www.igdb.com/games/" is kept as one token of a url
IgdbBase == <<"https://www.igdb.com/games/">>

LinkMapOne ==
    [p \in {"NES"} |->
        [x \in {T_Ab} |-> IgdbBase \o <<"a", "b", "-", "o", "v", "e", "r", "r", "i", "d", "e">>]]

Urls == {"games.json", "igdb-map.json"}

\* bodies a successful fetch of the url may decode to
Bodies(url) ==
    IF url = "games.json" THEN {CatalogFull, CatalogOne} ELSE {LinkMapOne}

\* every platform name, in localeCompare order
PlatformOrder == <<"GB", "NES", "SNES">>
PlatformNames == {PlatformOrder[i] : i \in 1..Len(PlatformOrder)}

\* texts the user may leave in the search box
SearchInputs == {<<>>, <<" ", "A", "b">>, <<"3">>}

\* option values of the letter select
LetterOptions == {<<>>, <<"#">>, <<"A">>, <<"B">>}

----------------------------------------------------------------------------
(* part_000: utilities and filters *)

\* part_000:50  firstLetterKey
firstLetterKey(title) ==
    LET ch == toUpperCase(charAt(trim(title), 0))
    IN  IF testAZ(ch) THEN ch ELSE <<"#">>

\* part_000:54  platformKeys: Object.keys(GAMES) sorted with localeCompare
platformKeys(G) ==
    LET isKey(p) == p \in DOMAIN G
    IN  SelectSeq(PlatformOrder, isKey)

\* part_000:103  titleMatchesFilters
titleMatchesFilters(title, st) ==
    /\ (st.search # <<>>) => includes(toLowerCase(title), st.search)
    /\ (st.letter # <<>>) => (firstLetterKey(title) = st.letter)

\* a platform list that ignores the selection
allPlatforms_ignoreSelection(G, st) == platformKeys(G)

\* part_000:118  const allPlatforms = state.platform ? [state.platform] : platformKeys()
allPlatforms(G, st) ==
    IF st.platform # "" THEN <<st.platform>> ELSE platformKeys(G)

\* part_000:125  (GAMES[p] || [])
titlesOf(G, p) == IF p \in DOMAIN G THEN G[p] ELSE <<>>

\* an entry stored without the length test
setIfAny_always(map, p, filtered) ==
    Append(map, [platform |-> p, titles |-> filtered])

\* part_000:127  if (filtered.length) filteredByPlatform.set(p, filtered)
setIfAny(map, p, filtered) ==
    IF Len(filtered) # 0
    THEN Append(map, [platform |-> p, titles |-> filtered])
    ELSE map

\* part_000:128  totalTitles += filtered.length
addTotal(total, titles, filtered) == total + Len(filtered)

\* part_000:124-129  the loop over allPlatforms; acc is (filteredByPlatform, totalTitles)
RECURSIVE filterLoop(_, _, _, _)
filterLoop(G, st, ps, acc) ==
    IF ps = <<>> THEN acc
    ELSE LET p == Head(ps)
             titles == titlesOf(G, p)
             keep(x) == titleMatchesFilters(x, st)
             filtered == SelectSeq(titles, keep)
         IN  filterLoop(G, st, Tail(ps),
                        [map |-> setIfAny(acc.map, p, filtered),
                         total |-> addTotal(acc.total, titles, filtered)])

\* part_000:118-129  filteredByPlatform (a Map, in insertion order) and totalTitles
filteredByPlatform(G, st) ==
    filterLoop(G, st, allPlatforms(G, st), [map |-> <<>>, total |-> 0])

\* part_000:131-135  the text of els.resultsMeta, kept as its parts
metaText(total, st) ==
    [total    |-> total,
     plural   |-> total # 1,
     platform |-> IF st.platform # "" THEN st.platform ELSE "all platforms",
     search   |-> st.search,
     letter   |-> st.letter]

----------------------------------------------------------------------------
(* part_000: rendering *)

\* a clearNode that leaves the children in place
clearNode_keep(n) == n

\* part_000:115  clearNode: remove children until none is left
RECURSIVE clearNode(_)
clearNode(n) == IF n = <<>> THEN n ELSE clearNode(Tail(n))

\* part_000:208  makeGameRow: the row's class and link text (the link's href,
\* toURL(platform, title), and the copy/open buttons are not part of the row
\* here; the expand/collapse buttons and <details>.open are left out likewise)
makeGameRow(platform, title, st) ==
    [title |-> title, compact |-> (st.density = "compact")]

\* a batch end computed from the batch size alone, the cursor forgotten
batchEnd_ignoreStart(panel) == Min(panel.step, Len(panel.titles))

\* part_000:176  const end = Math.min(start + step, titles.length)
batchEnd(panel) == Min(panel.start + panel.step, Len(panel.titles))

\* a loop that starts one past the cursor: for (let i = start + 1; i < end; i++)
batchRows_skipFirst(panel, end, st) ==
    [k \in 1..(end - panel.start - 1) |->
        makeGameRow(panel.platform, panel.titles[panel.start + k + 1], st)]

\* part_000:177-179  for (let i = start; i < end; i++) grid.appendChild(...)
batchRows(panel, end, st) ==
    [k \in 1..(end - panel.start) |->
        makeGameRow(panel.platform, panel.titles[panel.start + k], st)]

\* a cursor advanced with  start += end  instead of  start = end
renderBatch_plusEq(panel, st) ==
    LET end == batchEnd(panel)
        drawn == [panel EXCEPT !.grid = panel.grid \o batchRows(panel, end, st),
                               !.start = panel.start + end]
    IN  IF drawn.start >= Len(drawn.titles)
        THEN [drawn EXCEPT !.more = <<>>]
        ELSE drawn

\* part_000:175-186  renderBatch.  A panel is the closure of one iteration of
\* render's loop: titles, step, start, the grid's rows and the load-more
\* button (more: <<>> when the section has none, else <<remaining shown>>);
\* clicks is history: the load-more clicks this panel has handled.
renderBatch(panel, st) ==
    LET end == batchEnd(panel)
        drawn == [panel EXCEPT !.grid = panel.grid \o batchRows(panel, end, st),
                               !.start = end]
    IN  IF drawn.start >= Len(drawn.titles)
        THEN [drawn EXCEPT !.more = <<>>]
        ELSE drawn

\* part_000:194,198  `Load more (${titles.length - start} remaining)`
moreLabel(panel) == <<Len(panel.titles) - panel.start>>

\* a button added on  titles.length >= start  instead of  titles.length > start
newPanel_buttonAlways(platform, titles, st) ==
    LET fresh == [platform |-> platform, titles |-> titles, step |-> st.chunk,
                  start |-> 0, grid |-> <<>>, more |-> <<>>, clicks |-> 0]
        first == renderBatch(fresh, st)
    IN  IF Len(titles) >= first.start
        THEN [first EXCEPT !.more = moreLabel(first)]
        ELSE first

\* part_000:141-204  one iteration of render's loop: the panel, its first
\* batch, and the button when titles are left
newPanel(platform, titles, st) ==
    LET fresh == [platform |-> platform, titles |-> titles, step |-> st.chunk,
                  start |-> 0, grid |-> <<>>, more |-> <<>>, clicks |-> 0]
        first == renderBatch(fresh, st)
    IN  IF Len(titles) > first.start
        THEN [first EXCEPT !.more = moreLabel(first)]
        ELSE first

\* a listener that keeps the button on  titles.length >= start
loadMoreClick_keepsButton(panel, st) ==
    LET next == renderBatch(panel, st)
    IN  IF Len(next.titles) >= next.start
        THEN [next EXCEPT !.more = moreLabel(next)]
        ELSE [next EXCEPT !.more = <<>>]

\* part_000:195-202  the load-more button's click listener
loadMoreClick(panel, st) ==
    LET next == renderBatch(panel, st)
    IN  IF Len(next.titles) > next.start
        THEN [next EXCEPT !.more = moreLabel(next)]
        ELSE [next EXCEPT !.more = <<>>]

\* part_000:140-205  the loop appending one panel per entry of filteredByPlatform
RECURSIVE appendPanels(_, _, _)
appendPanels(list, map, st) ==
    IF map = <<>> THEN list
    ELSE appendPanels(Append(list, newPanel(Head(map).platform, Head(map).titles, st)),
                      Tail(map), st)

\* part_000:117-206  render, reading GAMES = G and state = st
render(G, st) ==
    LET f == filteredByPlatform(G, st)
    IN  /\ resultsMeta' = metaText(f.total, st)
        /\ gameList' = appendPanels(clearNode(gameList), f.map, st)
        /\ passes' = (passes + 1) % PassWrap

----------------------------------------------------------------------------
(* part_000: startup *)

\* history: load-more clicks handled by the panels of a document
RECURSIVE clicksIn(_)
clicksIn(list) ==
    IF list = <<>> THEN 0 ELSE Head(list).clicks + clicksIn(Tail(list))

ran(op, n, dropped) == [op |-> op, n |-> n, dropped |-> dropped]

\* part_000:8-15  const state = { ... }, with the batch size step
newState(step) ==
    [search |-> <<>>, platform |-> "", letter |-> <<>>, density |-> "cozy",
     chunk |-> step]

\* part_000:92  populatePlatformSelect: the options are the page's "all
\* platforms" option and one option per key of GAMES
platformOptions(G) == {""} \cup DOMAIN G

\* the module is evaluated and init() has run up to its await (part_000:82)
Init ==
    /\ pc = "await"
    /\ pending = Urls
    /\ results = [u \in Urls |-> EmptyObj]
    /\ GAMES = EmptyObj
    /\ LINKMAP = EmptyObj
    /\ state = newState(SmallChunk)
    /\ searchValue = <<>>
    /\ platformValue = ""
    /\ letterValue = <<>>
    /\ t = 0
    /\ timeouts = {}
    /\ resultsMeta = <<>>
    /\ gameList = <<>>
    /\ passes = 0
    /\ burst = 0
    /\ last = ran("load", 0, 0)
    /\ script = <<>>
    /\ probe = <<>>

\* part_000:62-70  loadJSON(url, {}) settles: with the decoded body, or with
\* the fallback when the fetch, the status or the parse fails
FetchSettle(url, ok, body) ==
    /\ pc = "await"
    /\ url \in pending
    /\ pending' = pending \ {url}
    /\ results' = [results EXCEPT ![url] = IF ok THEN body ELSE EmptyObj]
    /\ last' = ran("fetch", 0, 0)
    /\ UNCHANGED <<script, probe, pc, GAMES, LINKMAP, state, searchValue, platformValue, letterValue,
                   t, timeouts, resultsMeta, gameList, passes, burst>>

\* part_000:82-89  Promise.all has resolved: the globals are assigned, the
\* select is populated, the listeners are bound and render() runs
InitResume ==
    /\ pc = "await"
    /\ pending = {}
    /\ pc' = "ready"
    /\ GAMES' = results["games.json"]
    /\ LINKMAP' = results["igdb-map.json"]
    /\ render(GAMES', state)
    /\ last' = ran("init", 0, clicksIn(gameList))
    /\ UNCHANGED <<script, probe, pending, results, state, searchValue, platformValue, letterValue,
                   t, timeouts, burst>>

----------------------------------------------------------------------------
(* part_000: events *)

\* clearTimeout(id): a no-op unless that timeout is still scheduled
clearTimeout(ts, id) == ts \ {id}

\* the id setTimeout returns: one no scheduled timeout has
freshId(ts) == CHOOSE id \in 1..(Cardinality(ts) + 1) : id \notin ts

\* a debounce that cancels the timeout already set and schedules none
debounce_cancelOnly(ts, tid) ==
    [timeouts |-> clearTimeout(ts, tid), t |-> tid]

\* a debounce that schedules without cancelling the timeout already set
debounce_noClear(ts, tid) ==
    LET id == freshId(ts)
    IN  [timeouts |-> ts \cup {id}, t |-> id]

\* part_000:258-260  a call of the debounced function:
\* clearTimeout(t); t = setTimeout(...)
debounce(ts, tid) ==
    LET cleared == clearTimeout(ts, tid)
        id == freshId(cleared)
    IN  [timeouts |-> cleared \cup {id}, t |-> id]

\* part_000:262  an input event on the search box, whose text is now v
OnSearchInput(v) ==
    /\ pc = "ready"
    /\ v # searchValue
    /\ Cardinality(timeouts) < MaxTimers
    /\ searchValue' = v
    /\ LET d == debounce(timeouts, t)
       IN  /\ timeouts' = d.timeouts
           /\ t' = d.t
    /\ burst' = Min(burst + 1, MaxBurst)
    /\ last' = ran("input", 0, 0)
    /\ UNCHANGED <<script, probe, pc, pending, results, GAMES, LINKMAP, state, platformValue,
                   letterValue, resultsMeta, gameList, passes>>

\* a listener that stores the text as typed
normalizeSearch_raw(v) == v

\* part_000:263  e.target.value.trim().toLowerCase()
normalizeSearch(v) == toLowerCase(trim(v))

\* part_000:262-265  the timeout fires: the debounced listener body runs
OnSearchTimeout(id) ==
    /\ pc = "ready"
    /\ id \in timeouts
    /\ timeouts' = timeouts \ {id}
    /\ state' = [state EXCEPT !.search = normalizeSearch(searchValue)]
    /\ render(GAMES, state')
    /\ burst' = 0
    /\ last' = ran("search", burst, clicksIn(gameList))
    /\ UNCHANGED <<script, probe, pc, pending, results, GAMES, LINKMAP, searchValue, platformValue,
                   letterValue, t>>

\* a platform listener that stores the selection and forgets render()
OnPlatformChange_noRender(v) ==
    /\ pc = "ready"
    /\ v \in platformOptions(GAMES)
    /\ v # platformValue
    /\ platformValue' = v
    /\ state' = [state EXCEPT !.platform = v]
    /\ last' = ran("platform", 0, 0)
    /\ UNCHANGED <<script, probe, pc, pending, results, GAMES, LINKMAP, searchValue, letterValue,
                   t, timeouts, burst, resultsMeta, gameList, passes>>

\* part_000:267-270  a change event on the platform select, now showing v
OnPlatformChange(v) ==
    /\ pc = "ready"
    /\ v \in platformOptions(GAMES)
    /\ v # platformValue
    /\ platformValue' = v
    /\ state' = [state EXCEPT !.platform = v]
    /\ render(GAMES, state')
    /\ last' = ran("platform", 0, clicksIn(gameList))
    /\ UNCHANGED <<script, probe, pc, pending, results, GAMES, LINKMAP, searchValue, letterValue,
                   t, timeouts, burst>>

\* part_000:272-275  a change event on the letter select, now showing v
OnLetterChange(v) ==
    /\ pc = "ready"
    /\ v # letterValue
    /\ letterValue' = v
    /\ state' = [state EXCEPT !.letter = toUpperCase(v)]
    /\ render(GAMES, state')
    /\ last' = ran("letter", 0, clicksIn(gameList))
    /\ UNCHANGED <<script, probe, pc, pending, results, GAMES, LINKMAP, searchValue, platformValue,
                   t, timeouts, burst>>

\* part_000:284-288  a click on the density button
OnDensityClick ==
    /\ pc = "ready"
    /\ state' = [state EXCEPT
                   !.density = IF state.density = "cozy" THEN "compact" ELSE "cozy"]
    /\ render(GAMES, state')
    /\ last' = ran("density", 0, clicksIn(gameList))
    /\ UNCHANGED <<script, probe, pc, pending, results, GAMES, LINKMAP, searchValue, platformValue,
                   letterValue, t, timeouts, burst>>

\* a load-more click that also resets the letter filter
OnLoadMore_clearsLetter(i) ==
    /\ i \in 1..Len(gameList)
    /\ gameList[i].more # <<>>
    /\ gameList' = [gameList EXCEPT
                      ![i] = [loadMoreClick(gameList[i], state) EXCEPT !.clicks = @ + 1]]
    /\ state' = [state EXCEPT !.letter = <<>>]
    /\ last' = ran("more", 0, 0)
    /\ UNCHANGED <<script, probe, pc, pending, results, GAMES, LINKMAP, searchValue,
                   platformValue, letterValue, t, timeouts, resultsMeta, passes, burst>>

\* part_000:195-202  a click on the load-more button of the i-th panel in the
\* document (a button exists only while it is a child of a panel's section)
OnLoadMore(i) ==
    /\ i \in 1..Len(gameList)
    /\ gameList[i].more # <<>>
    /\ gameList' = [gameList EXCEPT
                      ![i] = [loadMoreClick(gameList[i], state) EXCEPT !.clicks = @ + 1]]
    /\ last' = ran("more", 0, 0)
    /\ UNCHANGED <<script, probe, pc, pending, results, GAMES, LINKMAP, state, searchValue,
                   platformValue, letterValue, t, timeouts, resultsMeta, passes, burst>>

Next ==
    \/ \E url \in Urls : \E body \in Bodies(url) : FetchSettle(url, TRUE, body)
    \/ \E url \in Urls : FetchSettle(url, FALSE, EmptyObj)
    \/ InitResume
    \/ \E v \in SearchInputs : OnSearchInput(v)
    \/ \E id \in timeouts : OnSearchTimeout(id)
    \/ \E v \in PlatformNames \cup {""} : OnPlatformChange(v)
    \/ \E v \in LetterOptions : OnLetterChange(v)
    \/ OnDensityClick
    \/ \E i \in 1..Len(gameList) : OnLoadMore(i)

Spec == Init /\ [][Next]_vars

\* part_000:259  setTimeout(() => fn(...args), ms): a timeout fires, which
\* removes it from the scheduled ones and runs the debounced listener body
TimeoutFires ==
    \E id \in timeouts : timeouts' = timeouts \ {id} /\ burst' = 0

\* the page, with timeouts that fire: a timeout that stays scheduled (the
\* burst of input events has an end) fires after its 160 ms
SpecFair == Spec /\ WF_<<timeouts, burst>>(TimeoutFires)

----------------------------------------------------------------------------
(* The batched renderer on lists of every length and with every batch size: *)
(* init() resumes on a catalog of one platform with T titles (the k-th is   *)
(* the one-token title <<k>>) and state.chunk = B; no filter is ever set,   *)
(* so the filtered list is the whole list.                                  *)

numbered(T) == [k \in 1..T |-> <<k>>]

BatchCases ==
    ((0..MaxTotal) \X (1..MaxStep)) \cup ({399, 400, 401, 800, 1000} \X {chunk})

InitBatch ==
    /\ pc = "await"
    /\ pending = {}
    /\ \E c \in BatchCases :
          /\ results = [u \in Urls |->
                          IF u = "games.json"
                          THEN [p \in {"NES"} |-> numbered(c[1])]
                          ELSE EmptyObj]
          /\ state = newState(c[2])
    /\ GAMES = EmptyObj
    /\ LINKMAP = EmptyObj
    /\ searchValue = <<>>
    /\ platformValue = ""
    /\ letterValue = <<>>
    /\ t = 0
    /\ timeouts = {}
    /\ resultsMeta = <<>>
    /\ gameList = <<>>
    /\ passes = 0
    /\ burst = 0
    /\ last = ran("load", 0, 0)
    /\ script = <<>>
    /\ probe = <<>>

NextBatch ==
    \/ InitResume
    \/ \E i \in 1..Len(gameList) : OnLoadMore(i)

SpecBatch == InitBatch /\ [][NextBatch]_vars

----------------------------------------------------------------------------
(* src/script.js: the render of the cover-map variant *)

\* script.js:90  document.getElementById("search").value.toLowerCase().trim()
scriptSearchTerm(text) == trim(toLowerCase(text))

\* script.js:95  selectedPlatform ? [selectedPlatform] : Object.keys(games).sort(...)
scriptPlatforms(games, selected) ==
    IF selected # "" THEN <<selected>> ELSE platformKeys(games)

\* script.js:97-103  the loop: one <h2> section per platform with matches
RECURSIVE scriptSections(_, _, _)
scriptSections(games, term, ps) ==
    IF ps = <<>> THEN <<>>
    ELSE LET p == Head(ps)
             keep(g) == term = <<>> \/ includes(toLowerCase(g), term)
             titles == SelectSeq(titlesOf(games, p), keep)
             rest == scriptSections(games, term, Tail(ps))
         IN  IF Len(titles) = 0 THEN rest
             ELSE <<[platform |-> p, titles |-> titles]>> \o rest

\* script.js:89-137  render: the sections put into #game-list
scriptRender(games, text, selected) ==
    scriptSections(games, scriptSearchTerm(text), scriptPlatforms(games, selected))

----------------------------------------------------------------------------
(* Properties of the batched renderer *)

rowTitles(grid) == [k \in 1..Len(grid) |-> grid[k].title]

complete(panel) == Len(panel.grid) = Len(panel.titles)

\* the list render filters for a platform, under the committed filter state
filteredFor(G, st, p) ==
    LET keep(x) == titleMatchesFilters(x, st)
    IN  SelectSeq(titlesOf(G, p), keep)

\* C1: in every panel of the current pass, after any number of load-more
\* clicks, the rows emitted so far are exactly the first `start` titles of the
\* platform's filtered list, in catalog order (so none twice, none skipped at
\* a batch boundary), and a panel without a load-more button has emitted the
\* whole filtered list.
C1_EmittedIsPrefix ==
    \A i \in 1..Len(gameList) :
        LET p == gameList[i]
        IN  /\ p.titles = filteredFor(GAMES, state, p.platform)
            /\ p.start \in 0..Len(p.titles)
            /\ rowTitles(p.grid) = SubSeq(p.titles, 1, p.start)
            /\ (p.more = <<>>) => (rowTitles(p.grid) = p.titles)

\* a panel of five or more titles completed by two or more load-more clicks
C1_Witness ==
    \E i \in 1..Len(gameList) :
        /\ gameList[i].clicks >= 2
        /\ gameList[i].more = <<>>
        /\ Len(gameList[i].titles) >= 5

\* C2: panel creation emits min(B, T) rows and every load-more click emits
\* min(B, T - emitted) rows; with T = 1000 and B = 400 the first batch has 400
\* rows and the button reports 600, and after two clicks all 1000 titles are
\* emitted in order and the button is gone.
C2_StepSizes ==
    \A i \in 1..Len(gameList') :
        LET q == gameList'[i]
        IN  IF passes' = passes /\ i \in 1..Len(gameList)
            THEN (q.clicks = gameList[i].clicks + 1) =>
                    (Len(q.grid) - Len(gameList[i].grid)
                        = Min(gameList[i].step,
                              Len(gameList[i].titles) - Len(gameList[i].grid)))
            ELSE Len(q.grid) = Min(q.step, Len(q.titles))

C2_Thousand ==
    \A i \in 1..Len(gameList) :
        LET p == gameList[i]
        IN  (Len(p.titles) = 1000 /\ p.step = 400) =>
                /\ (p.clicks = 0) => (Len(p.grid) = 400 /\ p.more = <<600>>)
                /\ (p.clicks = 2) => (rowTitles(p.grid) = p.titles /\ p.more = <<>>)

C2_BatchSizes == [][C2_StepSizes]_vars /\ []C2_Thousand

\* 1000 titles, batch size 400, two load-more clicks: all emitted, no button
C2_Witness ==
    \E i \in 1..Len(gameList) :
        /\ Len(gameList[i].titles) = 1000
        /\ gameList[i].step = chunk
        /\ gameList[i].clicks = 2
        /\ Len(gameList[i].grid) = 1000
        /\ gameList[i].more = <<>>

\* C3: a panel has a load-more button exactly when it has emitted fewer rows
\* than its list has titles, the button reports exactly the number not yet
\* emitted, and a panel that has emitted everything does not change again
\* within the pass.
C3_ControlState ==
    \A i \in 1..Len(gameList) :
        LET p == gameList[i]
        IN  /\ (p.more # <<>>) <=> (Len(p.grid) < Len(p.titles))
            /\ (p.more # <<>>) => (p.more = <<Len(p.titles) - Len(p.grid)>>)

C3_CompleteIsTerminal ==
    (passes' = passes) =>
        /\ Len(gameList') = Len(gameList)
        /\ \A i \in 1..Len(gameList) :
              complete(gameList[i]) => (gameList'[i] = gameList[i])

C3_LoadMoreControl == []C3_ControlState /\ [][C3_CompleteIsTerminal]_vars

\* one panel whose button was updated by a click, next to one a click completed
C3_Witness ==
    \E i, j \in 1..Len(gameList) :
        /\ gameList[i].clicks >= 1 /\ gameList[i].more # <<>>
        /\ gameList[j].clicks >= 1 /\ gameList[j].more = <<>>

\* C4: a panel's cursor lies between 0 and the length of its filtered list;
\* within a pass it never decreases; the cursors after a new pass are those of
\* fresh panels (one batch from 0), whatever the cursors before it were.
C4_CursorInRange ==
    \A i \in 1..Len(gameList) :
        gameList[i].start \in 0..Len(gameList[i].titles)

C4_CursorStep ==
    IF passes' = passes
    THEN /\ Len(gameList') = Len(gameList)
         /\ \A i \in 1..Len(gameList) :
               /\ gameList'[i].titles = gameList[i].titles
               /\ gameList'[i].start >= gameList[i].start
    ELSE \A i \in 1..Len(gameList') :
               /\ gameList'[i].clicks = 0
               /\ gameList'[i].start = Min(state'.chunk, Len(gameList'[i].titles))

C4_Cursor == []C4_CursorInRange /\ [][C4_CursorStep]_vars

\* a density toggle re-rendered panels that had handled load-more clicks, and
\* a fresh panel still has titles left
C4_Witness ==
    /\ last.op = "density"
    /\ last.dropped >= 1
    /\ \E i \in 1..Len(gameList) : gameList[i].more # <<>>

\* the panel render builds for one entry of the filter result
freshPanel(e, st) ==
    LET T == Len(e.titles)
        n == Min(st.chunk, T)
    IN  [platform |-> e.platform, titles |-> e.titles, step |-> st.chunk,
         start |-> n,
         grid |-> [k \in 1..n |->
                     [title |-> e.titles[k], compact |-> (st.density = "compact")]],
         more |-> IF n < T THEN <<T - n>> ELSE <<>>,
         clicks |-> 0]

freshDocument(G, st) ==
    LET f == filteredByPlatform(G, st).map
    IN  [i \in 1..Len(f) |-> freshPanel(f[i], st)]

\* C5: every change of the filter state is followed by a pass in the same
\* step, and after every pass the document holds exactly one fresh panel per
\* platform of the new filter result, each showing the first
\* min(chunk, total) titles: no panel, cursor or button of an earlier pass is
\* left, however many load-more clicks that pass had handled.
C5_PassStep ==
    /\ (state' # state) => (passes' # passes)
    /\ (passes' # passes) => (gameList' = freshDocument(GAMES', state'))

C5_FreshPass == [][C5_PassStep]_vars

\* a debounced search pass replaced panels that had handled two or more clicks
C5_Witness ==
    /\ last.op = "search"
    /\ last.dropped >= 2
    /\ gameList # <<>>

----------------------------------------------------------------------------
(* Properties of the event handlers *)

\* C6: at most one debounced recompute is scheduled at any time; an input
\* event schedules exactly one and runs no pass; a burst of N >= 1 input
\* events is consumed by exactly one run of the debounced listener, which
\* stores the normalized text the search box holds when it fires (the text of
\* the last event) and renders one pass from it.
C6_Pending ==
    /\ Cardinality(timeouts) <= 1
    /\ (burst >= 1) <=> (timeouts # {})

C6_Step ==
    /\ (last'.op = "input") =>
          /\ timeouts' = {t'}
          /\ burst' >= 1
          /\ state' = state
          /\ passes' = passes
    /\ (last'.op = "search" \/ state'.search # state.search) =>
          /\ timeouts # {}
          /\ timeouts' = {}
          /\ burst >= 1
          /\ burst' = 0
          /\ state' = [state EXCEPT !.search = normalizeSearch(searchValue')]
          /\ passes' = (passes + 1) % PassWrap
          /\ resultsMeta'.search = normalizeSearch(searchValue')
          /\ gameList' = freshDocument(GAMES, state')

C6_Debounce == []C6_Pending /\ [][C6_Step]_vars

\* the debounced listener has just run for a burst of two or more input
\* events and committed a non-empty search
C6_Witness ==
    /\ last.op = "search"
    /\ last.n >= 2
    /\ state.search # <<>>
    /\ timeouts = {}

\* C7: a change of the platform selection, and a change of the letter
\* selection, stores the new selection in the filter state in the same step
\* and runs exactly one pass in that step, a pending debounced recompute
\* staying scheduled.
C7_Step ==
    /\ (platformValue' # platformValue) =>
          /\ state' = [state EXCEPT !.platform = platformValue']
          /\ passes' = (passes + 1) % PassWrap
          /\ gameList' = freshDocument(GAMES, state')
          /\ timeouts' = timeouts
    /\ (letterValue' # letterValue) =>
          /\ state' = [state EXCEPT !.letter = toUpperCase(letterValue')]
          /\ passes' = (passes + 1) % PassWrap
          /\ gameList' = freshDocument(GAMES, state')
          /\ timeouts' = timeouts

C7_ImmediateCommit == [][C7_Step]_vars

\* a platform was selected while a debounced recompute was pending
C7_Witness ==
    /\ last.op = "platform"
    /\ state.platform # ""
    /\ timeouts # {}

----------------------------------------------------------------------------
(* Properties of the filter *)

\* the platform has no title that passes the committed filters
noMatch(G, st, p) ==
    \/ p \notin DOMAIN G
    \/ \A k \in 1..Len(G[p]) : ~titleMatchesFilters(G[p][k], st)

\* the platform has no title that contains the search term (script.js:98)
scriptNoMatch(G, text, p) ==
    \/ p \notin DOMAIN G
    \/ \A k \in 1..Len(G[p]) :
          ~(scriptSearchTerm(text) = <<>>
            \/ includes(toLowerCase(G[p][k]), scriptSearchTerm(text)))

\* C8: with a platform selected (any platform name, in the catalog or not),
\* the filter result has at most one entry, an entry is the selected
\* platform's, and the result is empty exactly when that platform has no
\* matching title; the document shows the same.
C8_SinglePlatform ==
    /\ \A p \in PlatformNames :
          LET r == filteredByPlatform(GAMES, [state EXCEPT !.platform = p]).map
              s == scriptRender(GAMES, searchValue, p)
          IN  /\ Len(r) <= 1
              /\ \A i \in 1..Len(r) : r[i].platform = p
              /\ (Len(r) = 0) <=> noMatch(GAMES, [state EXCEPT !.platform = p], p)
              /\ Len(s) <= 1
              /\ \A i \in 1..Len(s) : s[i].platform = p
              /\ (Len(s) = 0) <=> scriptNoMatch(GAMES, searchValue, p)
    /\ (state.platform # "") =>
          /\ Len(gameList) <= 1
          /\ \A i \in 1..Len(gameList) : gameList[i].platform = state.platform

\* one platform of a catalog with several is selected and has matches
C8_Witness ==
    /\ pc = "ready"
    /\ state.platform = "NES"
    /\ Cardinality(DOMAIN GAMES) >= 2
    /\ Len(gameList) = 1
    /\ ~noMatch(GAMES, [state EXCEPT !.platform = "GB"], "GB")

\* the bucket of a title as the specification defines it: the capital of the
\* first character of the trimmed title when that is an ASCII letter, else "#"
asciiCapital(c) ==
    IF c \in AsciiLower THEN Capitals[letterIndex(Smalls, c)] ELSE c

bucketOf(title) ==
    LET s == trim(title)
    IN  IF s # <<>> /\ s[1] \in (AsciiUpper \cup AsciiLower)
        THEN <<asciiCapital(s[1])>>
        ELSE <<"#">>

\* C9: with a letter filter set (and no search), a title of the catalog
\* passes the filter exactly when its bucket is the selected letter.
C9_LetterBucket ==
    (pc = "ready" /\ state.letter # <<>>) =>
        \A p \in DOMAIN GAMES : \A k \in 1..Len(GAMES[p]) :
            titleMatchesFilters(GAMES[p][k], [state EXCEPT !.search = <<>>])
                <=> (bucketOf(GAMES[p][k]) = state.letter)

RECURSIVE sumOfLengths(_)
sumOfLengths(map) ==
    IF map = <<>> THEN 0 ELSE Len(Head(map).titles) + sumOfLengths(Tail(map))

\* C10: in every filter result (whatever the platform selection) no entry has
\* an empty title list and the total is the sum of the entries' lengths; the
\* document has no panel without titles and the reported total is the sum of
\* its panels' list lengths.
C10_NoEmptyEntryAndTotal ==
    /\ \A p \in PlatformNames \cup {""} :
          LET f == filteredByPlatform(GAMES, [state EXCEPT !.platform = p])
          IN  /\ \A i \in 1..Len(f.map) : Len(f.map[i].titles) >= 1
              /\ f.total = sumOfLengths(f.map)
    /\ (pc = "ready") =>
          /\ \A i \in 1..Len(gameList) : Len(gameList[i].titles) >= 1
          /\ resultsMeta.total = sumOfLengths(gameList)

\* a pass over a catalog of three platforms showed two and omitted the third
C10_Witness ==
    /\ pc = "ready"
    /\ Cardinality(DOMAIN GAMES) = 3
    /\ Len(gameList) = 2
    /\ resultsMeta.total >= 3

----------------------------------------------------------------------------
(* Properties of the filter, continued *)

\* two characters that differ at most in the case of an ASCII letter
sameIgnoringCase(c, d) == asciiCapital(c) = asciiCapital(d)

\* the needle occurs in the hay, the case of ASCII letters ignored
containsIgnoringCase(hay, needle) ==
    \E k \in 0..(Len(hay) - Len(needle)) :
        \A i \in 1..Len(needle) : sameIgnoringCase(hay[k + i], needle[i])

\* the conjunction of the active filters, as the specification words it
satisfiesFilters(title, st) ==
    /\ (st.search # <<>>) => containsIgnoringCase(title, st.search)
    /\ (st.letter # <<>>) => (bucketOf(title) = st.letter)

\* the title list the filter loop of render keeps for platform p (empty when
\* it keeps no entry for p)
keptFor(G, st, p) ==
    LET f == filteredByPlatform(G, [st EXCEPT !.platform = p]).map
        at == {i \in 1..Len(f) : f[i].platform = p}
    IN  IF at = {} THEN <<>> ELSE f[CHOOSE i \in at : TRUE].titles

\* C11: for every platform, under the committed search and letter, the list
\* the filter keeps is the catalog's list for the platform restricted to
\* exactly the titles that contain the search text (case ignored) and lie in
\* the selected letter bucket, in catalog order, duplicates kept; the panels
\* of the document carry these lists.
C11_FilteredSubsequence ==
    (pc = "ready") =>
        /\ \A p \in PlatformNames :
              LET sat(x) == satisfiesFilters(x, state)
              IN  keptFor(GAMES, state, p) = SelectSeq(titlesOf(GAMES, p), sat)
        /\ \A i \in 1..Len(gameList) :
              LET sat(x) == satisfiesFilters(x, state)
              IN  gameList[i].titles =
                      SelectSeq(titlesOf(GAMES, gameList[i].platform), sat)

----------------------------------------------------------------------------
(* script.js, part_001, part_000: slugs *)

OpenBrackets == {"(", "[", "{"}
CloseBrackets == {")", "]", "}"}
\* U+2122, U+00AE, U+00A9
Glyphs == {"tm", "reg", "copy"}
\* the characters /[a-z0-9]/ matches
AlnumLower == AsciiLower \cup Digits

\* indices of s that hold a character of the set
indicesOf(s, set) == {i \in 1..Len(s) : s[i] \in set}

\* the least element of a non-empty set of numbers
least(S) == CHOOSE i \in S : \A j \in S : i <= j

\* s.split(sep)[0]: the part of s before the first occurrence of sep
splitFirst(s, sep) ==
    LET at == {k \in 0..(Len(s) - Len(sep)) : SubSeq(s, k + 1, k + Len(sep)) = sep}
    IN  IF at = {} \/ sep = <<>> THEN s ELSE SubSeq(s, 1, least(at))

\* s.replace(/[set]/g, rep): every character of the set replaced by rep
RECURSIVE replaceEach(_, _, _)
replaceEach(s, set, rep) ==
    IF s = <<>> THEN <<>>
    ELSE (IF Head(s) \in set THEN rep ELSE <<Head(s)>>)
             \o replaceEach(Tail(s), set, rep)

\* s.replace(/[^keep]+/g, rep): every maximal run of characters outside keep
\* replaced by rep
RECURSIVE replaceRuns(_, _, _)
replaceRuns(s, keep, rep) ==
    IF s = <<>> THEN <<>>
    ELSE IF Head(s) \in keep THEN <<Head(s)>> \o replaceRuns(Tail(s), keep, rep)
    ELSE LET rest == Tail(s)
             stop == indicesOf(rest, keep)
         IN  IF stop = {} THEN rep
             ELSE rep \o replaceRuns(SubSeq(rest, least(stop), Len(rest)), keep, rep)

\* s.replace(/\s*[\(\[\{].*?[\)\]\}]\s*/g, " "): from the leftmost opening
\* bracket that has a closing bracket after it, with the white space before
\* it, up to the nearest closing bracket (of any shape) and the white space
\* after it; then again on what follows
RECURSIVE stripBracketed(_)
stripBracketed(s) ==
    LET opens == indicesOf(s, OpenBrackets)
    IN  IF opens = {} THEN s
        ELSE LET j == least(opens)
                 closes == {k \in indicesOf(s, CloseBrackets) : k > j}
             IN  IF closes = {} THEN s
                 ELSE LET k == least(closes)
                          before == trimEnd(SubSeq(s, 1, j - 1))
                          after == trimStart(SubSeq(s, k + 1, Len(s)))
                      IN  before \o <<" ">> \o stripBracketed(after)

\* s.replace(/\s+/g, " ")
collapseSpaces(s) ==
    LET notSpace == {s[i] : i \in 1..Len(s)} \ {" "}
    IN  replaceRuns(s, notSpace, <<" ">>)

\* s.normalize("NFKD"), per character
Decomposed(c) ==
    CASE c = "e_acute" -> <<"e", "acute">>
      [] c = "E_acute" -> <<"E", "acute">>
      [] c = "tm" -> <<"T", "M">>
      [] OTHER -> <<c>>

RECURSIVE normalizeNFKD(_)
normalizeNFKD(s) ==
    IF s = <<>> THEN <<>> ELSE Decomposed(Head(s)) \o normalizeNFKD(Tail(s))

\* the characters U+0300 .. U+036F
CombiningMarks == {"acute"}

\* s.replace(/^-+|-+$/g, "")
RECURSIVE trimHyphens(_)
trimHyphens(s) ==
    IF s # <<>> /\ Head(s) = "-" THEN trimHyphens(Tail(s))
    ELSE IF s # <<>> /\ s[Len(s)] = "-" THEN trimHyphens(SubSeq(s, 1, Len(s) - 1))
    ELSE s

\* s.replace(/-{2,}/g, "-")
RECURSIVE collapseHyphens(_)
collapseHyphens(s) ==
    IF Len(s) < 2 THEN s
    ELSE IF s[1] = "-" /\ s[2] = "-" THEN collapseHyphens(Tail(s))
    ELSE <<Head(s)>> \o collapseHyphens(Tail(s))

\* script.js:8  normalizeKey
normalizeKey(s) ==
    replaceRuns(toLowerCase(replaceEach(normalizeNFKD(s), CombiningMarks, <<>>)),
                AlnumLower, <<>>)

\* script.js:20  preCleanTitle
preCleanTitle(title) ==
    LET t1 == splitFirst(title, <<" ", "/", " ">>)
        t2 == stripBracketed(t1)
        t3 == replaceEach(t2, Glyphs, <<>>)
    IN  trim(collapseSpaces(t3))

\* the tail of both slugifyIGDB: NFKD, marks dropped, lower case, runs of
\* other characters to one hyphen, hyphens trimmed and collapsed
hyphenate(s) ==
    collapseHyphens(trimHyphens(
        replaceRuns(toLowerCase(replaceEach(normalizeNFKD(s), CombiningMarks, <<>>)),
                    AlnumLower, <<"-">>)))

----------------------------------------------------------------------------
(* script.js, part_001, part_000: values, the alias table, urls *)

\* a JavaScript value a property read may give: undefined, a string, or a
\* function (text: what it is as a string, as in a template literal or href)
undefined == [kind |-> "undefined", text |-> <<"u", "n", "d", "e", "f", "i", "n", "e", "d">>]
str(s) == [kind |-> "string", text |-> s]

\* Object.prototype.constructor, which every object literal and every object
\* JSON.parse builds inherits: the function Object
ObjectFunction ==
    [kind |-> "function",
     text |-> <<"f", "u", "n", "c", "t", "i", "o", "n", " ", "O", "b",
              "j", "e", "c", "t", "(", ")", " ", "{", " ", "[", "n", "a",
              "t", "i", "v", "e", " ", "c", "o", "d", "e", "]", " ",
              "}">>]

\* the property names inherited from Object.prototype that consist of
\* lower-case letters only (toString, valueOf, hasOwnProperty, ... are
\* inherited alike)
InheritedNames == {<<"c", "o", "n", "s", "t", "r", "u", "c", "t", "o", "r">>}

\* obj[key] for an object with string values: an own property, else an
\* inherited one, else undefined
get(obj, key) ==
    IF key \in DOMAIN obj THEN str(obj[key])
    ELSE IF key \in InheritedNames THEN ObjectFunction
    ELSE undefined

\* the truth value of a value in a condition or under ||
truthy(v) == v.kind = "function" \/ (v.kind = "string" /\ v.text # <<>>)

K_unsquadron == <<"u", "n", "s", "q", "u", "a", "d", "r", "o", "n">>
K_area88 == <<"a", "r", "e", "a", "8", "8">>
K_mariokart8 == <<"m", "a", "r", "i", "o", "k", "a", "r", "t", "8">>
S_unsquadron == <<"u", "-", "n", "-", "s", "q", "u", "a", "d", "r", "o", "n">>
S_mariokart8 == <<"m", "a", "r", "i", "o", "-", "k", "a", "r", "t", "-", "8">>

\* script.js:15  aliasSlugMap
aliasSlugMap ==
    [k \in {K_unsquadron, K_area88, K_mariokart8} |->
        IF k = K_mariokart8 THEN S_mariokart8 ELSE S_unsquadron]

\* script.js:26  slugifyIGDB (part_001:39 is the same function)
slugifyIGDB(title) ==
    LET cleaned == preCleanTitle(title)
        key == normalizeKey(cleaned)
        alias == get(aliasSlugMap, key)
    IN  IF truthy(alias) THEN alias
        ELSE str(hyphenate(replaceEach(replaceEach(cleaned, {"&"}, <<" ", "a", "n", "d", " ">>),
                                       {"+"}, <<" ", "p", "l", "u", "s", " ">>)))

\* part_000:29  slugifyIGDB, the "minimal deterministic slug" without alias
\* table
slugifyMinimal(title) ==
    LET t1 == splitFirst(title, <<" ", "/", " ">>)
        t2 == stripBracketed(t1)
        t3 == replaceEach(t2, Glyphs, <<>>)
        t4 == replaceEach(t3, {"&"}, <<" ", "a", "n", "d", " ">>)
        t5 == replaceEach(t4, {"+"}, <<" ", "p", "l", "u", "s", " ">>)
        cleaned == trim(collapseSpaces(t5))
    IN  str(hyphenate(cleaned))

\* LINKMAP?.[platform]?.[title]  (platforms are the names in PlatformNames,
\* none of which Object.prototype defines)
override(LM, platform, title) ==
    IF platform \in DOMAIN LM THEN get(LM[platform], title) ELSE undefined

\* script.js:71  getIGDBUrl, as the text the href gets
getIGDBUrl(LM, platform, title) ==
    LET m == override(LM, platform, title)
    IN  IF truthy(m) THEN m.text ELSE IgdbBase \o slugifyIGDB(title).text

\* part_000:47  toURL, as the text the href gets
toURL(LM, platform, title) ==
    LET m == override(LM, platform, title)
    IN  IF truthy(m) THEN m.text ELSE IgdbBase \o slugifyMinimal(title).text

----------------------------------------------------------------------------
(* The url of a row, as a function of the override map, the platform and the *)
(* title: getIGDBUrl of script.js and toURL of part_000, each called once.   *)

\* "U.N. Squadron"
P_UNSquadron ==
    <<"U", ".", "N", ".", " ", "S", "q", "u", "a", "d", "r", "o", "n">>
\* "Area 88"
P_Area88 ==
    <<"A", "r", "e", "a", " ", "8", "8">>
\* "Mario Kart 8 (USA)"
P_MarioKart8 ==
    <<"M", "a", "r", "i", "o", " ", "K", "a", "r", "t", " ", "8", " ", "(",
    "U", "S", "A", ")">>
\* "Pokémon™ / Pocket"
P_Pokemon ==
    <<"P", "o", "k", "e_acute", "m", "o", "n", "tm", " ", "/", " ", "P",
    "o", "c", "k", "e", "t">>
\* "A&B+"
P_AandBplus ==
    <<"A", "&", "B", "+">>
\* "-- a  -  b --"
P_hyphens ==
    <<"-", "-", " ", "a", " ", " ", "-", " ", " ", "b", " ", "-", "-">>
\* "(x)"
P_bracketed ==
    <<"(", "x", ")">>
\* "Constructor"
P_Constructor ==
    <<"C", "o", "n", "s", "t", "r", "u", "c", "t", "o", "r">>
\* "constructor"
P_constructor ==
    <<"c", "o", "n", "s", "t", "r", "u", "c", "t", "o", "r">>
\* "ßa"
P_sza ==
    <<"sz", "a">>
\* "a [b) c]"
P_mismatched ==
    <<"a", " ", "[", "b", ")", " ", "c", "]">>
\* "Ab"
P_Ab ==
    <<"A", "b">>
\* ""
P_empty ==
    <<>>
\* "Area (88"
P_unclosed ==
    <<"A", "r", "e", "a", " ", "(", "8", "8">>

ProbeTitles ==
    {P_UNSquadron, P_Area88, P_MarioKart8, P_Pokemon, P_AandBplus,
     P_hyphens, P_bracketed, P_Constructor, P_constructor, P_sza,
     P_mismatched, P_Ab, P_empty, P_unclosed}

U_ab == IgdbBase \o <<"a", "b", "-", "o", "v", "e", "r", "r", "i", "d", "e">>
U_area == IgdbBase \o <<"a", "8", "8">>

\* override maps igdb-map.json may hold: none (also what a failed fetch
\* leaves), one with urls, an empty string and a platform without titles
LinkMapMixed ==
    [p \in {"NES", "GB"} |->
        IF p = "NES"
        THEN [x \in {P_Ab, P_Area88, P_UNSquadron} |->
                 CASE x = P_Ab -> U_ab [] x = P_Area88 -> U_area [] OTHER -> <<>>]
        ELSE EmptyObj]

ProbeLinkMaps == {EmptyObj, LinkMapOne, LinkMapMixed}

noCall(platform, title) ==
    [fn |-> "", platform |-> platform, title |-> title, slug |-> undefined, href |-> <<>>]

InitSlug ==
    /\ pc = "probe"
    /\ pending = {}
    /\ results = EmptyObj
    /\ GAMES = EmptyObj
    /\ LINKMAP \in ProbeLinkMaps
    /\ state = newState(chunk)
    /\ searchValue = <<>>
    /\ platformValue = ""
    /\ letterValue = <<>>
    /\ t = 0
    /\ timeouts = {}
    /\ resultsMeta = <<>>
    /\ gameList = <<>>
    /\ passes = 0
    /\ burst = 0
    /\ last = ran("load", 0, 0)
    /\ script = <<>>
    /\ probe \in {noCall(p, x) : p \in PlatformNames, x \in ProbeTitles}

\* script.js:71  a call getIGDBUrl(platform, title), and the slug
\* slugifyIGDB gives for the title
CallGetIGDBUrl ==
    /\ pc = "probe"
    /\ probe.fn = ""
    /\ probe' = [probe EXCEPT !.fn = "getIGDBUrl",
                              !.slug = slugifyIGDB(probe.title),
                              !.href = getIGDBUrl(LINKMAP, probe.platform, probe.title)]
    /\ UNCHANGED <<script, pc, pending, results, GAMES, LINKMAP, state, searchValue,
                   platformValue, letterValue, t, timeouts, resultsMeta, gameList,
                   passes, burst, last>>

\* part_000:47  a call toURL(platform, title), and the slug its slugifyIGDB
\* gives for the title
CallToURL ==
    /\ pc = "probe"
    /\ probe.fn = ""
    /\ probe' = [probe EXCEPT !.fn = "toURL",
                              !.slug = slugifyMinimal(probe.title),
                              !.href = toURL(LINKMAP, probe.platform, probe.title)]
    /\ UNCHANGED <<script, pc, pending, results, GAMES, LINKMAP, state, searchValue,
                   platformValue, letterValue, t, timeouts, resultsMeta, gameList,
                   passes, burst, last>>

NextSlug == CallGetIGDBUrl \/ CallToURL

SpecSlug == InitSlug /\ [][NextSlug]_vars

----------------------------------------------------------------------------
(* Properties of url resolution *)

\* the override map holds a url for the pair (an empty string is no url)
overridePresent(LM, platform, title) ==
    /\ platform \in DOMAIN LM
    /\ title \in DOMAIN LM[platform]
    /\ LM[platform][title] # <<>>

\* C12: a call for a pair whose override is present returns the override,
\* unchanged; a call for a pair without override (no map, no entry for the
\* platform, none for the title) returns the base url followed by the slug
\* generated for the title.
C12_OverrideWins ==
    (probe # <<>> /\ probe.fn # "") =>
        IF overridePresent(LINKMAP, probe.platform, probe.title)
        THEN probe.href = LINKMAP[probe.platform][probe.title]
        ELSE probe.href = IgdbBase \o probe.slug.text

\* a slug: characters of [a-z0-9-] only, no hyphen first or last, no two
\* hyphens in a row (the empty slug included)
wellFormedSlug(s) ==
    /\ \A i \in 1..Len(s) : s[i] \in AlnumLower \cup {"-"}
    /\ s # <<>> => (s[1] # "-" /\ s[Len(s)] # "-")
    /\ \A i \in 1..(Len(s) - 1) : ~(s[i] = "-" /\ s[i + 1] = "-")

\* C13: the slug either slugifyIGDB produces for a title is well formed.
C13_SlugAlphabet ==
    (probe # <<>> /\ probe.fn # "") => wellFormedSlug(probe.slug.text)

\* C14: a call for a pair without override, for a title whose normalization
\* key (of the pre-cleaned title) is a key of the alias table, returns the base
\* url followed by the slug the table gives for the key.
C14_AliasWins ==
    (probe # <<>> /\ probe.fn # "") =>
        LET key == normalizeKey(preCleanTitle(probe.title))
        IN  (/\ ~overridePresent(LINKMAP, probe.platform, probe.title)
             /\ key \in DOMAIN aliasSlugMap)
                => (probe.href = IgdbBase \o aliasSlugMap[key])

----------------------------------------------------------------------------
(* script.js: startup.  The variable script holds its globals (games,        *)
(* linkMap, coverMap), the position of init() (pc, pending, results), the    *)
(* platform select (options, selected), the children of #game-list           *)
(* (container) and, as history, the urls in the order their loads settled    *)
(* (order), the urls whose load failed (failed) and the number of render()   *)
(* calls (renders).                                                          *)

ScriptUrls == {"games.json", "igdb-map.json", "igdb-covers.json"}

U_cover == <<"https://images.igdb.com/", "a", "b", ".", "j", "p", "g">>

\* a cover map with a url and an empty string ("attempted, not found")
CoverMapOne == [p \in {"NES"} |-> [x \in {T_Ab, T_3a} |-> IF x = T_Ab THEN U_cover ELSE <<>>]]

\* bodies a successful fetch of the url may decode to
ScriptBodies(url) ==
    CASE url = "games.json" -> {CatalogFull, CatalogOne}
      [] url = "igdb-map.json" -> {LinkMapOne}
      [] OTHER -> {CoverMapOne}

\* script.js:4-6  games = {}, linkMap = {}, coverMap = {}; init() has called
\* the three loadJSON and awaits Promise.all
scriptStart ==
    [pc |-> "await", pending |-> ScriptUrls, results |-> [u \in ScriptUrls |-> EmptyObj],
     games |-> EmptyObj, linkMap |-> EmptyObj, coverMap |-> EmptyObj,
     options |-> <<>>, selected |-> "", container |-> <<>>,
     order |-> <<>>, failed |-> {}, renders |-> 0]

\* script.js:78  getCoverUrl: the url, or <<>> for null
getCoverUrl(CM, platform, title) ==
    LET u == override(CM, platform, title)
    IN  IF u.kind = "string" /\ u.text # <<>> THEN u.text ELSE <<>>

\* script.js:105-134  the row of a title: link text, href and the image of the
\* hover card (<<>> : no hover card, the url as tooltip)
scriptRow(LM, CM, platform, title) ==
    [title |-> title,
     href |-> getIGDBUrl(LM, platform, title),
     cover |-> getCoverUrl(CM, platform, title)]

\* script.js:89-137  render: the sections put into #game-list, with their rows
scriptDocument(G, LM, CM, text, selected) ==
    LET sections == scriptRender(G, text, selected)
    IN  [i \in 1..Len(sections) |->
            [platform |-> sections[i].platform,
             rows |-> [k \in 1..Len(sections[i].titles) |->
                         scriptRow(LM, CM, sections[i].platform, sections[i].titles[k])]]]

\* a loadJSON that takes whatever body arrived, whatever the status
ScriptFetchSettle_ignoreStatus(url, ok, body) ==
    /\ script # <<>>
    /\ script.pc = "await"
    /\ url \in script.pending
    /\ script' = [script EXCEPT !.pending = @ \ {url},
                                !.results[url] = body,
                                !.order = Append(@, url),
                                !.failed = IF ok THEN @ ELSE @ \cup {url}]
    /\ UNCHANGED <<probe, pc, pending, results, GAMES, LINKMAP, state, searchValue,
                   platformValue, letterValue, t, timeouts, resultsMeta, gameList,
                   passes, burst, last>>

\* script.js:37-45  loadJSON(url, {}) settles: with the decoded body, or with
\* the fallback when the fetch, the status or the parse fails
ScriptFetchSettle(url, ok, body) ==
    /\ script # <<>>
    /\ script.pc = "await"
    /\ url \in script.pending
    /\ script' = [script EXCEPT !.pending = @ \ {url},
                                !.results[url] = IF ok THEN body ELSE EmptyObj,
                                !.order = Append(@, url),
                                !.failed = IF ok THEN @ ELSE @ \cup {url}]
    /\ UNCHANGED <<probe, pc, pending, results, GAMES, LINKMAP, state, searchValue,
                   platformValue, letterValue, t, timeouts, resultsMeta, gameList,
                   passes, burst, last>>

\* script.js:59  populatePlatforms empties the select and adds one option per
\* platform.  The value of the select afterwards is that of the option the
\* browser selects: the first one in a drop-down, none ("") in a list box
\* (the markup of the select is not among the sources).
selectedAfterPopulate(options) ==
    IF options = <<>> THEN {""} ELSE {"", options[1]}

\* an init that goes on without awaiting the loads
ScriptInitResume_noAwait(sel) ==
    /\ script # <<>>
    /\ script.pc = "await"
    /\ LET g == script.results["games.json"]
           lm == script.results["igdb-map.json"]
           cm == script.results["igdb-covers.json"]
       IN  /\ sel \in selectedAfterPopulate(platformKeys(g))
           /\ script' = [script EXCEPT !.pc = "ready",
                                       !.games = g, !.linkMap = lm, !.coverMap = cm,
                                       !.options = platformKeys(g),
                                       !.selected = sel,
                                       !.container = scriptDocument(g, lm, cm, <<>>, sel),
                                       !.renders = @ + 1]
    /\ UNCHANGED <<probe, pc, pending, results, GAMES, LINKMAP, state, searchValue,
                   platformValue, letterValue, t, timeouts, resultsMeta, gameList,
                   passes, burst, last>>

\* script.js:54-56  Promise.all has resolved: the globals are assigned, the
\* select is populated, the listeners are bound and render() runs
ScriptInitResume(sel) ==
    /\ script # <<>>
    /\ script.pc = "await"
    /\ script.pending = {}
    /\ LET g == script.results["games.json"]
           lm == script.results["igdb-map.json"]
           cm == script.results["igdb-covers.json"]
       IN  /\ sel \in selectedAfterPopulate(platformKeys(g))
           /\ script' = [script EXCEPT !.pc = "ready",
                                       !.games = g, !.linkMap = lm, !.coverMap = cm,
                                       !.options = platformKeys(g),
                                       !.selected = sel,
                                       !.container = scriptDocument(g, lm, cm, <<>>, sel),
                                       !.renders = @ + 1]
    /\ UNCHANGED <<probe, pc, pending, results, GAMES, LINKMAP, state, searchValue,
                   platformValue, letterValue, t, timeouts, resultsMeta, gameList,
                   passes, burst, last>>

\* the two pages start, each with its own fetches
InitStartup ==
    /\ pc = "await"
    /\ pending = Urls
    /\ results = [u \in Urls |-> EmptyObj]
    /\ GAMES = EmptyObj
    /\ LINKMAP = EmptyObj
    /\ state = newState(SmallChunk)
    /\ searchValue = <<>>
    /\ platformValue = ""
    /\ letterValue = <<>>
    /\ t = 0
    /\ timeouts = {}
    /\ resultsMeta = <<>>
    /\ gameList = <<>>
    /\ passes = 0
    /\ burst = 0
    /\ last = ran("load", 0, 0)
    /\ script = scriptStart
    /\ probe = <<>>

NextStartup ==
    \/ \E url \in Urls, ok \in BOOLEAN : \E body \in Bodies(url) :
          FetchSettle(url, ok, body)
    \/ InitResume
    \/ \E url \in ScriptUrls, ok \in BOOLEAN : \E body \in ScriptBodies(url) :
          ScriptFetchSettle(url, ok, body)
    \/ \E sel \in PlatformNames \cup {""} : ScriptInitResume(sel)

SpecStartup == InitStartup /\ [][NextStartup]_vars

----------------------------------------------------------------------------
(* Properties of startup *)

\* the sections show, for each platform the selection covers that has
\* titles, every title of the platform, in catalog order
showsEveryTitle(container, G, selected) ==
    LET ps == scriptPlatforms(G, selected)
        hasTitles(p) == Len(titlesOf(G, p)) > 0
        shown == SelectSeq(ps, hasTitles)
    IN  /\ Len(container) = Len(shown)
        /\ \A i \in 1..Len(shown) :
              /\ container[i].platform = shown[i]
              /\ rowTitles(container[i].rows) = G[shown[i]]

scriptRows(container) ==
    UNION {{container[i].rows[k] : k \in 1..Len(container[i].rows)} :
               i \in 1..Len(container)}

C19_Settled ==
    /\ (script.order = <<>>) => (script.pending = ScriptUrls)
    /\ (script.pc = "await") => (script.renders = 0 /\ script.container = <<>>)
    /\ (script.pc = "ready") =>
          /\ script.pending = {}
          /\ script.renders = 1
          /\ {script.order[i] : i \in 1..Len(script.order)} = ScriptUrls
    /\ (pc = "await") => (passes = 0 /\ gameList = <<>> /\ resultsMeta = <<>>)
    /\ (pc = "ready") => (pending = {} /\ passes = 1)

C19_Step ==
    /\ (script'.renders # script.renders) => (script.pending = {})
    /\ (script'.pending # script.pending) => (script'.renders = 0)
    /\ (passes' # passes) => (pending = {})
    /\ (pending' # pending) => (passes' = 0)

C19_AwaitAll == []C19_Settled /\ [][C19_Step]_vars

\* both pages rendered, script.js after its loads settled in the order
\* covers, overrides, catalog
C19_Witness ==
    /\ pc = "ready"
    /\ script.pc = "ready"
    /\ script.order = <<"igdb-covers.json", "igdb-map.json", "games.json">>

----------------------------------------------------------------------------
(* part_000: a catalog whose platform values need not be lists.  In this     *)
(* specification GAMES maps a platform to a JSON value: a record with its    *)
(* kind, whether it is truthy, and its items when it is a list.              *)

jsonList(items) == [kind |-> "list", truthy |-> TRUE, items |-> items]
jsonNull == [kind |-> "null", truthy |-> FALSE, items |-> <<>>]
jsonZero == [kind |-> "number", truthy |-> FALSE, items |-> <<>>]
jsonFive == [kind |-> "number", truthy |-> TRUE, items |-> <<>>]
jsonText == [kind |-> "string", truthy |-> TRUE, items |-> <<>>]
jsonObject == [kind |-> "object", truthy |-> TRUE, items |-> <<>>]

\* catalogs of three platforms; GB holds the value v
catalogWith(v) ==
    [p \in {"GB", "NES", "SNES"} |->
        CASE p = "NES" -> jsonList(<<T_Ab, T_3a, T_ab>>)
          [] p = "GB" -> v
          [] OTHER -> jsonList(<<T_Ba>>)]

JsonCatalogs ==
    {catalogWith(v) :
        v \in {jsonList(<<T_Ba, T_3a>>), jsonNull, jsonZero, jsonFive, jsonText, jsonObject}}

\* part_000:125  (GAMES[p] || []) for every platform where .filter exists on
\* it: the list itself, [] for a falsy value
orEmpty(J) ==
    [p \in DOMAIN J |-> IF J[p].kind = "list" THEN J[p].items ELSE <<>>]

\* part_000:126  titles.filter is not a function: the loop reaches a platform
\* whose value is truthy and not an array
filterThrows(J, st) ==
    LET ps == allPlatforms(J, st)
    IN  \E i \in 1..Len(ps) :
            /\ ps[i] \in DOMAIN J
            /\ J[ps[i]].truthy
            /\ J[ps[i]].kind # "list"

\* part_000:117-206  render on such a catalog: the TypeError leaves the loop
\* before anything of the document is touched
renderJson(J, st) ==
    IF filterThrows(J, st)
    THEN UNCHANGED <<resultsMeta, gameList, passes>>
    ELSE render(orEmpty(J), st)

\* the handler that ran, or the uncaught TypeError it ended with
outcome(op, J, st) == IF filterThrows(J, st) THEN "TypeError" ELSE op

InitJson ==
    /\ pc = "await"
    /\ pending = {}
    /\ \E J \in JsonCatalogs :
          results = [u \in Urls |-> IF u = "games.json" THEN J ELSE EmptyObj]
    /\ GAMES = EmptyObj
    /\ LINKMAP = EmptyObj
    /\ state = newState(SmallChunk)
    /\ searchValue = <<>>
    /\ platformValue = ""
    /\ letterValue = <<>>
    /\ t = 0
    /\ timeouts = {}
    /\ resultsMeta = <<>>
    /\ gameList = <<>>
    /\ passes = 0
    /\ burst = 0
    /\ last = ran("load", 0, 0)
    /\ script = <<>>
    /\ probe = <<>>

\* part_000:82-89  init after its await; a TypeError in render() rejects
\* init() after the listeners are bound
InitResumeJson ==
    /\ pc = "await"
    /\ pending = {}
    /\ pc' = "ready"
    /\ GAMES' = results["games.json"]
    /\ LINKMAP' = results["igdb-map.json"]
    /\ renderJson(GAMES', state)
    /\ last' = ran(outcome("init", GAMES', state), 0, clicksIn(gameList))
    /\ UNCHANGED <<script, probe, pending, results, state, searchValue, platformValue,
                   letterValue, t, timeouts, burst>>

\* part_000:267-270  a change event on the platform select, now showing v
OnPlatformChangeJson(v) ==
    /\ pc = "ready"
    /\ v \in platformOptions(GAMES)
    /\ v # platformValue
    /\ platformValue' = v
    /\ state' = [state EXCEPT !.platform = v]
    /\ renderJson(GAMES, state')
    /\ last' = ran(outcome("platform", GAMES, state'), 0, clicksIn(gameList))
    /\ UNCHANGED <<script, probe, pc, pending, results, GAMES, LINKMAP, searchValue,
                   letterValue, t, timeouts, burst>>

\* part_000:272-275  a change event on the letter select, now showing v
OnLetterChangeJson(v) ==
    /\ pc = "ready"
    /\ v # letterValue
    /\ letterValue' = v
    /\ state' = [state EXCEPT !.letter = toUpperCase(v)]
    /\ renderJson(GAMES, state')
    /\ last' = ran(outcome("letter", GAMES, state'), 0, clicksIn(gameList))
    /\ UNCHANGED <<script, probe, pc, pending, results, GAMES, LINKMAP, searchValue,
                   platformValue, t, timeouts, burst>>

NextJson ==
    \/ InitResumeJson
    \/ \E v \in PlatformNames \cup {""} : OnPlatformChangeJson(v)
    \/ \E v \in LetterOptions : OnLetterChangeJson(v)

SpecJson == InitJson /\ [][NextJson]_vars

\* C16: a pass never ends in a TypeError, and the document it leaves is the
\* one for the catalog in which every value that is not a list is an empty
\* list: no panel for such a platform, the panels of the other platforms as
\* the filter gives them.
C16_MalformedAsEmpty ==
    (pc = "ready") =>
        /\ last.op # "TypeError"
        /\ LET f == filteredByPlatform(orEmpty(GAMES), state)
           IN  /\ Len(gameList) = Len(f.map)
               /\ \A i \in 1..Len(f.map) :
                     /\ gameList[i].platform = f.map[i].platform
                     /\ gameList[i].titles = f.map[i].titles
               /\ resultsMeta # <<>>
               /\ resultsMeta.total = f.total

----------------------------------------------------------------------------
(* Properties of the filter state *)

\* no white space first or last, no capital letter
trimmedLowerCase(s) ==
    /\ s # <<>> => (s[1] # " " /\ s[Len(s)] # " ")
    /\ \A i \in 1..Len(s) : s[i] \notin AsciiUpper \cup {"E_acute"}

\* unset, one capital letter, or "#"
letterOrMarker(l) ==
    l = <<>> \/ (Len(l) = 1 /\ l[1] \in AsciiUpper \cup {"#"})

\* C17: state.search is trimmed and in lower case, state.letter is unset, one
\* capital letter or "#", in every state.
C17_Normalized ==
    /\ trimmedLowerCase(state.search)
    /\ letterOrMarker(state.letter)

\* the box holds " Ab", the committed search is "ab", a letter is selected
C17_Witness ==
    /\ searchValue = <<" ", "A", "b">>
    /\ state.search = <<"a", "b">>
    /\ state.letter = <<"B">>
    /\ last.op = "search"

\* C18: once init has gone on, GAMES and LINKMAP never change; a pass on its
\* own (that of init) and a load-more click leave state as it is; state
\* changes only in the step of a listener, and only in the field the
\* listener assigns before it calls render.
C18_Step ==
    /\ (pc = "ready") => (GAMES' = GAMES /\ LINKMAP' = LINKMAP)
    /\ (last'.op \in {"init", "more", "fetch", "input"}) => (state' = state)
    /\ (last'.op = "search") =>
          (state' = [state EXCEPT !.search = normalizeSearch(searchValue)])
    /\ (last'.op = "platform") => (state' = [state EXCEPT !.platform = platformValue'])
    /\ (last'.op = "letter") =>
          (state' = [state EXCEPT !.letter = toUpperCase(letterValue')])
    /\ (last'.op = "density") =>
          (\E d \in {"cozy", "compact"} : state' = [state EXCEPT !.density = d])
    /\ last'.op \in {"init", "more", "fetch", "input", "search", "platform",
                      "letter", "density"}

C18_ReadOnlyPasses == [][C18_Step]_vars

\* a load-more click under a search, a letter and a platform selection, with
\* an override map loaded
C18_Witness ==
    /\ last.op = "more"
    /\ state.search # <<>>
    /\ state.letter # <<>>
    /\ state.platform # ""
    /\ LINKMAP # EmptyObj

----------------------------------------------------------------------------
(* Properties of the controller under any order of events *)

\* the filter state the controls show: the text of the search box trimmed and
\* in lower case, the selected platform, the selected letter
shownState ==
    [state EXCEPT !.search = normalizeSearch(searchValue),
                  !.platform = platformValue,
                  !.letter = letterValue]

\* the last pass ran on the filter state the controls show: its summary line
\* names that search, platform and letter, and the panels are those of the
\* filter under it
passForShown ==
    LET f == filteredByPlatform(GAMES, shownState)
    IN  /\ resultsMeta = metaText(f.total, shownState)
        /\ Len(gameList) = Len(f.map)
        /\ \A i \in 1..Len(f.map) :
              /\ gameList[i].platform = f.map[i].platform
              /\ gameList[i].titles = f.map[i].titles

C20_Consistent == (pc = "ready" /\ timeouts = {}) => passForShown

\* C20: whenever no timeout of the debounced search listener is scheduled,
\* the last pass ran on the filter state the controls show; and a scheduled
\* timeout leads to a state where none is scheduled and that holds again.
C20_EventuallyConsistent ==
    /\ []C20_Consistent
    /\ (pc = "ready" /\ timeouts # {}) ~> (timeouts = {} /\ passForShown)

\* a timeout is scheduled and a change of platform, letter or density has run
\* a pass on the search committed before, not the text in the box
C20_Witness ==
    /\ timeouts # {}
    /\ last.op \in {"platform", "letter", "density"}
    /\ resultsMeta.search # normalizeSearch(searchValue)
    /\ ~passForShown

----------------------------------------------------------------------------
(* Properties of load-more, continued *)

\* the least number of batches of B that hold T titles
ceilDiv(T, B) == (T + B - 1) \div B

\* no panel has handled more than ceil(T / B) - 1 load-more clicks, and a
\* panel has emitted its whole list, and lost its button, exactly when it has
\* handled that many
C21_ClickCount ==
    \A i \in 1..Len(gameList) :
        LET p == gameList[i]
            n == ceilDiv(Len(p.titles), p.step)
        IN  (p.step >= 1 /\ Len(p.titles) >= 1) =>
                /\ p.clicks <= n - 1
                /\ complete(p) <=> (p.clicks = n - 1)
                /\ (p.more = <<>>) <=> (p.clicks = n - 1)

\* a load-more click adds at least one row
C21_ClickEmits ==
    (passes' = passes) =>
        \A i \in 1..Len(gameList) :
            (gameList'[i].clicks # gameList[i].clicks) =>
                (Len(gameList'[i].grid) >= Len(gameList[i].grid) + 1)

\* C21: for a batch size of at least 1 and a list of at least one title, every
\* load-more click emits at least one row, also when the length is a multiple
\* of the batch size, and the panel is complete after exactly
\* ceil(T / B) - 1 clicks, after which no click is possible.
C21_NoEmptyBatch == []C21_ClickCount /\ [][C21_ClickEmits]_vars

\* 800 titles in batches of 400: complete after one click
C21_Witness ==
    \E i \in 1..Len(gameList) :
        /\ Len(gameList[i].titles) = 800
        /\ gameList[i].step = chunk
        /\ gameList[i].clicks = 1
        /\ complete(gameList[i])
        /\ gameList[i].more = <<>>

====
